---------------------------- MODULE Spec2Model ----------------------------
(***************************************************************************)
(* A model of code/BatchMaker.py: the BatchMaker object (the one-hot       *)
(* encoded volume self.im, its phases, high_l and the configuration), its  *)
(* constructor, the 8-fold rotate/mirror expansion, the random 2D and 3D   *)
(* patch samplers, the batch assemblers and the down-sampling step.        *)
(*                                                                         *)
(* An n-dimensional array (numpy.ndarray, torch.Tensor) is a record        *)
(*   [shape |-> <<d1, ..., dn>>, val |-> [index tuple |-> value]]          *)
(* whose index tuples are 0-based, as in the source.                       *)
(*                                                                         *)
(* The two geometric constants of the source, HIGH_L_3D = 64 and CROP = 4, *)
(* are scaled down (to 2 and 1) so that volumes and patches can be         *)
(* enumerated voxel by voxel; every formula of the source that uses them   *)
(* is kept as written.                                                     *)
(***************************************************************************)
EXTENDS Integers, Sequences, FiniteSets, TLC

VARIABLES
    pc,     \* "new" before __init__, "constructed" after it, "failed" if it raised
    raw,    \* the array imread(path) returned
    aug,    \* self.im after line 55-56 (the stack after rotate_and_mirror), with
            \* the number of times each output slice was written
    bm,     \* the BatchMaker object: its fields after __init__
    op,     \* the last call: its name and arguments
    rnd,    \* the random draws of the last call
    ret     \* what the last call returned (an array, or an error)

vars == <<pc, raw, aug, bm, op, rnd, ret>>

--------------------------------------------------------------------------
(* Program constants (scaled, see above) and the bounds of the model.      *)

HIGH_L_3D == 2

CROP == 1

perms == <<<<1, 2, 3>>, <<2, 1, 3>>, <<3, 1, 2>>>>

\* batch_size ranges over 1..MaxBatch
MaxBatch == 2

\* the noise added before thresholding, in thousandths: (rand - 0.5)/100 with
\* rand in [0, 1) lies in [-0.005, 0.005); a negative and a positive value
NoiseVals == {-5, 4}

None == [kind |-> "none"]

\* no call made yet, or its result dropped
NoCall == [name |-> "none"]

--------------------------------------------------------------------------
(* Arrays.                                                                 *)

Max(a, b) == IF a >= b THEN a ELSE b

Min(a, b) == IF a <= b THEN a ELSE b

RECURSIVE Idx(_)
\* all index tuples of an array of the given shape
Idx(sh) ==
    IF sh = <<>> THEN {<<>>}
    ELSE {<<i>> \o t : i \in 0 .. (sh[1] - 1), t \in Idx(Tail(sh))}

Arr(sh, F(_)) == [shape |-> sh, val |-> [i \in Idx(sh) |-> F(i)]]

Rank(a) == Len(a.shape)

RECURSIVE SeqSum(_)
SeqSum(s) == IF s = <<>> THEN 0 ELSE s[1] + SeqSum(Tail(s))

RECURSIVE SortedSeq(_)
\* the elements of a finite set of integers in increasing order
SortedSeq(S) ==
    IF S = {} THEN <<>>
    ELSE LET m == CHOOSE x \in S : \A y \in S : x <= y
         IN  <<m>> \o SortedSeq(S \ {m})

\* np.unique(a): the sorted distinct values
np_unique(a) == SortedSeq({a.val[i] : i \in DOMAIN a.val})

\* np.flip(a, -1)
np_flip(a) ==
    LET n == Rank(a)
        W == a.shape[n]
    IN  Arr(a.shape, LAMBDA i : a.val[[i EXCEPT ![n] = W - 1 - i[n]]])

\* np.rot90(a, k, [-2, -1]) for an array of rank >= 2
np_rot90(a, k) ==
    LET n == Rank(a)
        H == a.shape[n - 1]
        W == a.shape[n]
        swapped == [a.shape EXCEPT ![n - 1] = W, ![n] = H]
    IN  CASE k % 4 = 0 -> a
          [] k % 4 = 1 ->
               Arr(swapped, LAMBDA i :
                   a.val[[i EXCEPT ![n - 1] = i[n], ![n] = W - 1 - i[n - 1]]])
          [] k % 4 = 2 ->
               Arr(a.shape, LAMBDA i :
                   a.val[[i EXCEPT ![n - 1] = H - 1 - i[n - 1], ![n] = W - 1 - i[n]]])
          [] k % 4 = 3 ->
               Arr(swapped, LAMBDA i :
                   a.val[[i EXCEPT ![n - 1] = H - 1 - i[n], ![n] = i[n - 1]]])

--------------------------------------------------------------------------
(* rotate_and_mirror (lines 97-113).                                       *)

\* res[lo:lo+n, ...] = src : numpy refuses the assignment (ValueError) unless
\* src has the shape of the target block; equal ranks here, so broadcasting
\* could only stretch an axis of length 1
BlockFits(res, n, src) ==
    LET target == <<n>> \o Tail(res.shape)
    IN  /\ Len(src.shape) = Len(target)
        /\ \A d \in 1 .. Len(target) : src.shape[d] = target[d] \/ src.shape[d] = 1

\* the state of the loop: the array res and how often each res[i, ...] was assigned
AssignBlock(st, lo, n, src) ==
    LET inBlock(i) == lo <= i[1] /\ i[1] < lo + n
        from(i) == [d \in 1 .. Len(i) |->
                      IF src.shape[d] = 1 THEN 0
                      ELSE IF d = 1 THEN i[1] - lo ELSE i[d]]
    IN  [res |-> [shape |-> st.res.shape,
                  val |-> [i \in DOMAIN st.res.val |->
                             IF inBlock(i) THEN src.val[from(i)] ELSE st.res.val[i]]],
         written |-> [j \in DOMAIN st.written |->
                        IF lo <= j /\ j < lo + n THEN st.written[j] + 1
                        ELSE st.written[j]],
         ok |-> st.ok]

RECURSIVE RotLoop(_, _, _, _)
\* for k in np.arange(4), from iteration k on
RotLoop(k, im, flip_im, st) ==
    IF k = 4 \/ ~st.ok THEN st
    ELSE LET num_ims == im.shape[1]
             first_i == 2 * k * num_ims
             second_i == (2 * k + 1) * num_ims
             r1 == np_rot90(im, k)
             r2 == np_rot90(flip_im, k)
         IN  IF ~(BlockFits(st.res, num_ims, r1) /\ BlockFits(st.res, num_ims, r2))
             THEN [st EXCEPT !.ok = FALSE]
             ELSE RotLoop(k + 1, im, flip_im,
                          AssignBlock(AssignBlock(st, first_i, num_ims, r1),
                                      second_i, num_ims, r2))

\* rotate_and_mirror with the images of the stack itself where those of the
\* mirrored stack belong
rotate_and_mirror_unmirrored(im) ==
    LET num_ims == im.shape[1]
        shape == <<num_ims * 8>> \o Tail(im.shape)
        zeros == [res |-> Arr(shape, LAMBDA i : 0),
                  written |-> [j \in 0 .. (num_ims * 8 - 1) |-> 0],
                  ok |-> TRUE]
    IN  RotLoop(0, im, im, zeros)

\* self.im after rotate_and_mirror, or ok = FALSE when an assignment raised
rotate_and_mirror(im) ==
    LET num_ims == im.shape[1]
        flip_im == np_flip(im)
        shape == <<num_ims * 8>> \o Tail(im.shape)
        zeros == [res |-> Arr(shape, LAMBDA i : 0),
                  written |-> [j \in 0 .. (num_ims * 8 - 1) |-> 0],
                  ok |-> TRUE]
    IN  RotLoop(0, im, flip_im, zeros)

--------------------------------------------------------------------------
(* __init__ (lines 30-69).                                                 *)

\* a[CROP:-CROP] along one axis of extent n keeps the indices CROP .. n-CROP-1
CropExtent(n) == Max(0, n - 2 * CROP)

\* self.im[CROP:-CROP, CROP:-CROP(, CROP:-CROP)]
crop_im(im) ==
    Arr([d \in 1 .. Rank(im) |-> CropExtent(im.shape[d])],
        LAMBDA i : im.val[[d \in 1 .. Len(i) |-> i[d] + CROP]])

\* ImageTools.one_hot_encoding(im, phases): channel c is the indicator of phases[c]
one_hot_encoding(im, phases) ==
    Arr(<<Len(phases)>> \o im.shape,
        LAMBDA i : IF im.val[Tail(i)] = phases[i[1] + 1] THEN 1 ELSE 0)

\* int(HIGH_L_3D / self.scale_factor), doubled for dims = 2
high_l_of(cfg) ==
    LET base == IF cfg.low_res THEN HIGH_L_3D \div cfg.sf ELSE HIGH_L_3D
    IN  IF cfg.dims = 2 THEN base * 2 ELSE base

\* the object __init__ leaves behind, given the configuration and the array read
BatchMaker(cfg, image, rotated) ==
    LET im1 == IF cfg.rot_and_mir THEN rotated.res ELSE image
        dim_im == Rank(im1)
        phases == np_unique(im1)
        im2 == IF cfg.crop THEN crop_im(im1) ELSE im1
    IN  [down_sample |-> cfg.down_sample,
         to_low_idx |-> cfg.to_low_idx,
         squash |-> cfg.squash,
         scale_factor |-> cfg.sf,
         dims |-> cfg.dims,
         stack |-> cfg.stack,
         im |-> one_hot_encoding(im2, phases),
         dim_im |-> dim_im,
         phases |-> phases,
         high_l |-> high_l_of(cfg)]

Construct(inputs) ==
    /\ pc = "new"
    /\ \E input \in inputs :
         LET cfg == input.cfg
             image == input.raw
             rotated == IF cfg.rot_and_mir THEN rotate_and_mirror(image)
                        ELSE [res |-> image, written |-> <<>>, ok |-> TRUE]
         IN  /\ raw' = image
             /\ op' = [name |-> "__init__", cfg |-> cfg]
             /\ IF rotated.ok
                THEN /\ pc' = "constructed"
                     /\ aug' = rotated
                     /\ bm' = BatchMaker(cfg, image, rotated)
                ELSE /\ pc' = "failed"
                     /\ aug' = None
                     /\ bm' = None
    /\ UNCHANGED <<rnd, ret>>

--------------------------------------------------------------------------
(* numpy basic indexing, transposition and assignment.                     *)

Err(e) == [kind |-> "error", err |-> e]

All == [k |-> "all"]

At(n) == [k |-> "at", i |-> n]

Slice(lo, hi) == [k |-> "slice", lo |-> lo, hi |-> hi]

\* a slice lo:hi (0 <= lo) of an axis of extent n is clipped to the axis
SelStart(s, n) == IF s.k = "slice" THEN Min(s.lo, n) ELSE 0

SelLen(s, n) ==
    IF s.k = "all" THEN n
    ELSE IF s.k = "slice" THEN Max(0, Min(s.hi, n) - Min(s.lo, n))
    ELSE 1

\* a[sel[1], ..., sel[n]]: a view of a. An integer selector drops its axis.
\* The view keeps, for each of its indices, the index of a it stands for.
Index(a, sel) ==
    LET n == Rank(a)
        kept == SelectSeq([d \in 1 .. n |-> d], LAMBDA d : sel[d].k # "at")
        pos(d) == Cardinality({e \in 1 .. d : sel[e].k # "at"})
        shape == [t \in 1 .. Len(kept) |-> SelLen(sel[kept[t]], a.shape[kept[t]])]
        source(o) == [d \in 1 .. n |->
                        IF sel[d].k = "at" THEN sel[d].i
                        ELSE o[pos(d)] + SelStart(sel[d], a.shape[d])]
    IN  [kind |-> "array",
         shape |-> shape,
         val |-> [o \in Idx(shape) |-> a.val[source(o)]],
         base |-> "im",
         src |-> [o \in Idx(shape) |-> source(o)]]

\* v.transpose(*axes), axes 0-based: axis t of the result is axis axes[t] of v
Transpose(v, axes) ==
    LET n == Len(axes)
        shape == [t \in 1 .. n |-> v.shape[axes[t] + 1]]
        back(o) == [d \in 1 .. n |-> o[CHOOSE t \in 1 .. n : axes[t] + 1 = d]]
    IN  [kind |-> "array",
         shape |-> shape,
         val |-> [o \in Idx(shape) |-> v.val[back(o)]],
         base |-> v.base,
         src |-> [o \in Idx(shape) |-> v.src[back(o)]]]

RECURSIVE StripOnes(_, _)
\* numpy drops leading axes of length 1 of the value assigned until it has the
\* rank of the target
StripOnes(sh, n) ==
    IF Len(sh) > n /\ sh[1] = 1 THEN StripOnes(Tail(sh), n) ELSE sh

\* whether target[...] = value is accepted, the shapes aligned at the right
Broadcastable(valueShape, targetShape) ==
    LET s == StripOnes(valueShape, Len(targetShape))
        off == Len(targetShape) - Len(s)
    IN  /\ off >= 0
        /\ \A d \in 1 .. Len(s) : s[d] = targetShape[d + off] \/ s[d] = 1

\* the index of the value that lands on index j of the target
BroadcastFrom(valueShape, j) ==
    LET n == Len(valueShape)
        off == Len(j) - n
    IN  [d \in 1 .. n |->
           IF d + off < 1 \/ valueShape[d] = 1 THEN 0 ELSE j[d + off]]

--------------------------------------------------------------------------
(* generate_a_random_image3d (lines 139-153).                              *)

\* np.random.randint(highs) for an array of upper bounds draws each entry
\* from 0 .. highs[d]-1 and raises ValueError if some highs[d] <= 0: the set
\* of possible draws is empty exactly when it raises
Randint(highs) ==
    LET top == SeqSum([d \in 1 .. Len(highs) |-> Max(0, highs[d])])
    IN  {s \in [1 .. Len(highs) -> 0 .. top] : \A d \in 1 .. Len(highs) : s[d] < highs[d]}

\* np.array(self.im.shape[k:]) - self.high_l
StartHighs(self, k) ==
    LET sp == SubSeq(self.im.shape, k + 1, Len(self.im.shape))
    IN  [d \in 1 .. Len(sp) |-> sp[d] - self.high_l]

\* the draws of one call of generate_a_random_image3d
Draws3d(self) == {[s_ind |-> s] : s \in Randint(StartHighs(self, 1))}

\* generate_a_random_image3d without the transposition of line 153
generate_a_random_image3d_untransposed(self, dim_chosen, draw) ==
    LET h_r == self.high_l
        s_ind == draw.s_ind
        e_ind == [d \in 1 .. Len(s_ind) |-> s_ind[d] + h_r]
    IN  IF Len(s_ind) < 3 \/ Rank(self.im) # 4 THEN Err("IndexError")
        ELSE Index(self.im, <<All, Slice(s_ind[1], e_ind[1]),
                              Slice(s_ind[2], e_ind[2]),
                              Slice(s_ind[3], e_ind[3])>>)

generate_a_random_image3d(self, dim_chosen, draw) ==
    LET h_r == self.high_l
        s_ind == draw.s_ind
        e_ind == [d \in 1 .. Len(s_ind) |-> s_ind[d] + h_r]
    IN  IF Len(s_ind) < 3 \/ Rank(self.im) # 4 THEN Err("IndexError")
        ELSE Transpose(Index(self.im, <<All, Slice(s_ind[1], e_ind[1]),
                                        Slice(s_ind[2], e_ind[2]),
                                        Slice(s_ind[3], e_ind[3])>>),
                       <<0>> \o perms[dim_chosen + 1])

--------------------------------------------------------------------------
(* generate_a_random_image2d (lines 169-200).                              *)

\* the axis generate_a_random_image2d cuts (1-based, among the spatial axes)
FixedAxis(dim_chosen) == IF dim_chosen = 0 THEN 1 ELSE IF dim_chosen = 1 THEN 2 ELSE 3

\* the entries of s_ind and of slice_chosen that the branch taken reads
ReadStarts(self, dim_chosen) ==
    IF self.stack THEN {1, 2}
    ELSE IF self.dim_im = 2 THEN {1}
    ELSE {1, 2, 3} \ {FixedAxis(dim_chosen)}

ReadSlices(self, dim_chosen) ==
    IF self.stack THEN {1}
    ELSE IF self.dim_im = 2 THEN {}
    ELSE {FixedAxis(dim_chosen)}

\* the draws of one call of generate_a_random_image2d: s_ind and slice_chosen.
\* Either randint raises ValueError exactly when its set of draws is empty.
\* An entry that the branch taken never reads is drawn and dropped: it is
\* held at 0 here instead of being enumerated.
Draws2d(self, dim_chosen) ==
    LET starts == IF self.stack THEN Randint(StartHighs(self, 2))
                  ELSE Randint(StartHighs(self, 1))
        slices == IF self.stack THEN Randint(<<self.im.shape[2]>>)
                  ELSE Randint(Tail(self.im.shape))
    IN  {[s_ind |-> s, slice_chosen |-> c] :
           s \in {x \in starts : \A d \in DOMAIN x :
                                  d \notin ReadStarts(self, dim_chosen) => x[d] = 0},
           c \in {y \in slices : \A d \in DOMAIN y :
                                  d \notin ReadSlices(self, dim_chosen) => y[d] = 0}}

generate_a_random_image2d(self, dim_chosen, draw) ==
    LET s_ind == draw.s_ind
        e_ind == [d \in 1 .. Len(s_ind) |-> s_ind[d] + self.high_l]
        slice_chosen == draw.slice_chosen
        im == self.im
    IN  IF self.stack
        THEN IF Len(s_ind) < 2 \/ Rank(im) # 4 THEN Err("IndexError")
             ELSE Index(im, <<All, At(slice_chosen[1]),
                              Slice(s_ind[1], e_ind[1]), Slice(s_ind[2], e_ind[2])>>)
        ELSE IF self.dim_im = 2
        THEN Index(im, <<All, Slice(s_ind[1], e_ind[1]), Slice(s_ind[1], e_ind[1])>>)
        ELSE IF dim_chosen = 0
        THEN Index(im, <<All, At(slice_chosen[1]),
                         Slice(s_ind[2], e_ind[2]), Slice(s_ind[3], e_ind[3])>>)
        ELSE IF dim_chosen = 1
        THEN Index(im, <<All, Slice(s_ind[1], e_ind[1]),
                         At(slice_chosen[2]), Slice(s_ind[3], e_ind[3])>>)
        ELSE Index(im, <<All, Slice(s_ind[1], e_ind[1]),
                         Slice(s_ind[2], e_ind[2]), At(slice_chosen[3])>>)

--------------------------------------------------------------------------
(* down_sample_im (lines 71-95).                                           *)

RECURSIVE SumFn(_, _)
\* the sum of f[x] over x in S
SumFn(f, S) ==
    IF S = {} THEN 0
    ELSE LET x == CHOOSE y \in S : TRUE IN f[x] + SumFn(f, S \ {x})

RECURSIVE Power(_, _)
Power(b, e) == IF e = 0 THEN 1 ELSE b * Power(b, e - 1)

\* LearnTools.down_sample(image, to_low_idx, scale_factor, dims, squash): the
\* channels to_low_idx of a batch (B, C, spatial...), summed into one channel
\* when squash is set, pooled over blocks of scale_factor^dims voxels. The
\* pooled mean of a block is val/den: val counts the voxels of the block that
\* are set, den is the size of the block.
LearnTools_down_sample(image, to_low_idx, scale_factor, dims, squash) ==
    LET B == image.shape[1]
        C == image.shape[2]
        sp == SubSeq(image.shape, 3, Len(image.shape))
        chans == IF squash THEN 1 ELSE Len(to_low_idx)
        picked(m) == IF squash THEN {to_low_idx[t] : t \in 1 .. Len(to_low_idx)}
                     ELSE {to_low_idx[m + 1]}
        low == [d \in 1 .. Len(sp) |-> sp[d] \div scale_factor]
        block == Idx([d \in 1 .. Len(sp) |-> scale_factor])
        count(i) ==
            LET x == SubSeq(i, 3, Len(i))
                cells == picked(i[2]) \X block
            IN  SumFn([co \in cells |->
                         image.val[<<i[1], co[1]>> \o
                           [d \in 1 .. Len(x) |-> x[d] * scale_factor + co[2][d]]]],
                      cells)
    IN  IF Len(image.shape) # 2 + dims THEN Err("RuntimeError")
        ELSE IF \E t \in 1 .. Len(to_low_idx) : to_low_idx[t] \notin 0 .. (C - 1)
        THEN Err("IndexError")
        ELSE [kind |-> "array",
              shape |-> <<B, chans>> \o low,
              val |-> [i \in Idx(<<B, chans>> \o low) |-> count(i)],
              den |-> Power(scale_factor, dims)]

\* torch.rand(material_low_res.size()): one draw per material channel, shared
\* by the batch elements and the locations of that channel
NoiseFields(material) == [0 .. (material.shape[2] - 1) -> NoiseVals]

\* material_low_res + noise > 0.5, the noise in thousandths
Threshold(material, noise, i) ==
    IF 1000 * material.val[i] + material.den * noise[i[2]] > 500 * material.den
    THEN 1 ELSE 0

\* x.squeeze(0): the first axis is dropped when its length is 1
Squeeze0(x) ==
    IF x.shape # <<>> /\ x.shape[1] = 1
    THEN [x EXCEPT !.shape = Tail(x.shape),
                   !.val = [i \in Idx(Tail(x.shape)) |-> x.val[<<0>> \o i]]]
    ELSE x

\* pore_phase taken as the complement of the first material channel alone
PorePhase_first_channel(self, low, i) == 1 - low.val[i]

\* pore_phase of lines 86-93, at index i = (b, 0, x...)
PorePhase(self, low, i) ==
    IF self.squash
    THEN 1 - low.val[i]
    ELSE 1 - SumFn([m \in 0 .. (low.shape[2] - 1) |-> low.val[[i EXCEPT ![2] = m]]],
                   0 .. (low.shape[2] - 1))

down_sample_im(self, image, noise) ==
    LET material == LearnTools_down_sample(image, self.to_low_idx, self.scale_factor,
                                           self.dims, self.squash)
        low == [shape |-> material.shape,
                val |-> [i \in DOMAIN material.val |-> Threshold(material, noise, i)]]
        catShape == [low.shape EXCEPT ![2] = low.shape[2] + 1]
        cat == [kind |-> "array",
                shape |-> catShape,
                val |-> [i \in Idx(catShape) |->
                           IF i[2] = 0 THEN PorePhase(self, low, i)
                           ELSE low.val[[i EXCEPT ![2] = i[2] - 1]]],
                base |-> "fresh",
                src |-> <<>>]
    IN  IF material.kind = "error" THEN material ELSE Squeeze0(cat)

\* the possible outcomes of down_sample_im(image): what it returns, with the
\* noise drawn
DownSampleOutcomes(self, image) ==
    LET material == LearnTools_down_sample(image, self.to_low_idx, self.scale_factor,
                                           self.dims, self.squash)
    IN  IF material.kind = "error"
        THEN {[ret |-> material, noise |-> None, image |-> image]}
        ELSE {[ret |-> down_sample_im(self, image, nz), noise |-> nz, image |-> image] :
                nz \in NoiseFields(material)}

--------------------------------------------------------------------------
(* random_batch2d, random_batch3d, random_batch_for_real and               *)
(* random_batch_for_fake (lines 115-137, 155-167).                         *)

\* res = np.zeros(shape); for i in range(batch_size): res[i, ...] = patches[i]
FillBatch(shape, patches) ==
    IF \E i \in 1 .. Len(patches) : patches[i].kind = "error"
    THEN patches[CHOOSE i \in 1 .. Len(patches) : patches[i].kind = "error"]
    ELSE IF \E i \in 1 .. Len(patches) : ~Broadcastable(patches[i].shape, Tail(shape))
    THEN Err("ValueError")
    ELSE [kind |-> "array",
          shape |-> shape,
          val |-> [j \in Idx(shape) |->
                     LET p == patches[j[1] + 1]
                     IN  p.val[BroadcastFrom(StripOnes(p.shape, Len(shape) - 1), Tail(j))]],
          base |-> "fresh",
          src |-> <<>>]

\* the array res of random_batch3d after its loop
random_batch3d(self, batch_size, dim_chosen, draws) ==
    FillBatch(<<batch_size, Len(self.phases)>> \o [d \in 1 .. self.dims |-> self.high_l],
              [i \in 1 .. batch_size |->
                 generate_a_random_image3d(self, dim_chosen, draws[i])])

\* the array res of random_batch2d after its loop
random_batch2d(self, batch_size, dim_chosen, draws) ==
    FillBatch(<<batch_size, Len(self.phases), self.high_l, self.high_l>>,
              [i \in 1 .. batch_size |->
                 generate_a_random_image2d(self, dim_chosen, draws[i])])

\* torch.FloatTensor(res).to(device): a new tensor with the values of res
FloatTensor(res) == [kind |-> "array", shape |-> res.shape, val |-> res.val,
                     base |-> "fresh", src |-> <<>>]

\* lines 135-137 and 165-167
ReturnBatch(self, res) ==
    IF res.kind = "error" THEN {[ret |-> res, noise |-> None, image |-> None]}
    ELSE IF self.down_sample THEN DownSampleOutcomes(self, res)
    ELSE {[ret |-> FloatTensor(res), noise |-> None, image |-> None]}

Batch3dOutcomes(self, batch_size, dim_chosen) ==
    IF Draws3d(self) = {}
    THEN {[ret |-> Err("ValueError"), noise |-> None, image |-> None, draws |-> <<>>]}
    ELSE UNION {{[ret |-> o.ret, noise |-> o.noise, image |-> o.image, draws |-> dr] :
                   o \in ReturnBatch(self, random_batch3d(self, batch_size, dim_chosen, dr))} :
                dr \in [1 .. batch_size -> Draws3d(self)]}

Batch2dOutcomes(self, batch_size, dim_chosen) ==
    IF Draws2d(self, dim_chosen) = {}
    THEN {[ret |-> Err("ValueError"), noise |-> None, image |-> None, draws |-> <<>>]}
    ELSE UNION {{[ret |-> o.ret, noise |-> o.noise, image |-> o.image, draws |-> dr] :
                   o \in ReturnBatch(self, random_batch2d(self, batch_size, dim_chosen, dr))} :
                dr \in [1 .. batch_size -> Draws2d(self, dim_chosen)]}

random_batch_for_real(self, batch_size, dim_chosen) ==
    Batch2dOutcomes(self, batch_size, dim_chosen)

random_batch_for_fake(self, batch_size, dim_chosen) ==
    IF self.dims = 3 THEN Batch3dOutcomes(self, batch_size, dim_chosen)
    ELSE Batch2dOutcomes(self, batch_size, dim_chosen)

--------------------------------------------------------------------------
(* The calls.                                                              *)

Axes == 0 .. 2

BatchSizes == 1 .. MaxBatch

\* a call that applies the low_res sizing of line 67 to self.high_l itself
Call_resizes(name, batch_size, dim_chosen, outcomes) ==
    /\ pc = "constructed"
    /\ ret = None
    /\ \E o \in outcomes :
         /\ ret' = o.ret
         /\ rnd' = [draws |-> o.draws, noise |-> o.noise, image |-> o.image]
    /\ op' = [name |-> name, batch_size |-> batch_size, dim_chosen |-> dim_chosen]
    /\ bm' = [bm EXCEPT !.high_l = bm.high_l \div bm.scale_factor]
    /\ UNCHANGED <<pc, raw, aug>>

\* A call reads self alone, never what an earlier call returned: the caller
\* drops the result of a call (Discard) before it makes the next one.
Call(name, batch_size, dim_chosen, outcomes) ==
    /\ pc = "constructed"
    /\ ret = None
    /\ \E o \in outcomes :
         /\ ret' = o.ret
         /\ rnd' = [draws |-> o.draws, noise |-> o.noise, image |-> o.image]
    /\ op' = [name |-> name, batch_size |-> batch_size, dim_chosen |-> dim_chosen]
    /\ UNCHANGED <<pc, raw, aug, bm>>

GenerateARandomImage3d ==
    \E dim_chosen \in Axes :
      Call("generate_a_random_image3d", 0, dim_chosen,
           IF Draws3d(bm) = {}
           THEN {[ret |-> Err("ValueError"), noise |-> None, image |-> None, draws |-> <<>>]}
           ELSE {[ret |-> generate_a_random_image3d(bm, dim_chosen, dr),
                  noise |-> None, image |-> None, draws |-> <<dr>>] : dr \in Draws3d(bm)})

GenerateARandomImage2d ==
    \E dim_chosen \in Axes :
      Call("generate_a_random_image2d", 0, dim_chosen,
           IF Draws2d(bm, dim_chosen) = {}
           THEN {[ret |-> Err("ValueError"), noise |-> None, image |-> None, draws |-> <<>>]}
           ELSE {[ret |-> generate_a_random_image2d(bm, dim_chosen, dr),
                  noise |-> None, image |-> None, draws |-> <<dr>>] :
                   dr \in Draws2d(bm, dim_chosen)})

RandomBatch3d ==
    \E batch_size \in BatchSizes, dim_chosen \in Axes :
      Call("random_batch3d", batch_size, dim_chosen,
           Batch3dOutcomes(bm, batch_size, dim_chosen))

RandomBatch2d ==
    \E batch_size \in BatchSizes, dim_chosen \in Axes :
      Call("random_batch2d", batch_size, dim_chosen,
           Batch2dOutcomes(bm, batch_size, dim_chosen))

RandomBatchForReal ==
    \E batch_size \in BatchSizes, dim_chosen \in Axes :
      Call("random_batch_for_real", batch_size, dim_chosen,
           random_batch_for_real(bm, batch_size, dim_chosen))

RandomBatchForFake ==
    \E batch_size \in BatchSizes, dim_chosen \in Axes :
      Call("random_batch_for_fake", batch_size, dim_chosen,
           random_batch_for_fake(bm, batch_size, dim_chosen))

Discard ==
    /\ pc = "constructed"
    /\ ret # None
    /\ ret' = None
    /\ rnd' = None
    /\ op' = NoCall
    /\ UNCHANGED <<pc, raw, aug, bm>>

BatchCalls == {"random_batch3d", "random_batch2d", "random_batch_for_real",
               "random_batch_for_fake"}

--------------------------------------------------------------------------
(* The inputs: configurations and the arrays imread can return.            *)

\* a label array whose value at i is (c0 + sum of coef[d] * i[d]) mod nph
Labels(sh, coef, c0, nph) ==
    Arr(sh, LAMBDA i : (c0 + SeqSum([d \in 1 .. Len(i) |-> coef[d] * i[d]])) % nph)

\* a label array that is fg everywhere but at one voxel, which is bg
Dot(sh, at, bg, fg) == Arr(sh, LAMBDA i : IF i = at THEN bg ELSE fg)

\* the defaults of __init__ (line 30-32) but for sf, to_low_idx and
\* rot_and_mir: sf = 2, one material phase, no expansion
Default ==
    [down_sample |-> FALSE, to_low_idx |-> <<1>>, squash |-> FALSE, sf |-> 2,
     dims |-> 3, stack |-> FALSE, crop |-> FALSE, low_res |-> FALSE,
     rot_and_mir |-> FALSE]

\* a configuration without down-sampling, and with it: one material phase,
\* two material phases, two material phases squashed into one
Down(c) ==
    {c,
     [c EXCEPT !.down_sample = TRUE],
     [c EXCEPT !.down_sample = TRUE, !.to_low_idx = <<1, 2>>],
     [c EXCEPT !.down_sample = TRUE, !.to_low_idx = <<1, 2>>, !.squash = TRUE]}

Pairs(cfgs, raws) == {[cfg |-> c, raw |-> v] : c \in cfgs, v \in raws}

\* true 3D volumes: three phases in layers, two phases in layers, a pore in
\* solid material, a volume of the size of a patch
Layers3 == Labels(<<3, 3, 3>>, <<0, 0, 1>>, 1, 3)

Layers2 == Labels(<<4, 3, 3>>, <<1, 0, 0>>, 0, 2)

Pore == Dot(<<3, 3, 4>>, <<0, 0, 0>>, 0, 1)

Small == Labels(<<2, 2, 2>>, <<1, 1, 0>>, 0, 2)

Large == Labels(<<4, 4, 4>>, <<0, 1, 1>>, 1, 3)

\* stacks of 2D slices
Stack1 == Labels(<<1, 3, 3>>, <<0, 1, 2>>, 0, 3)

Stack2 == Labels(<<2, 3, 4>>, <<1, 1, 0>>, 1, 2)

\* single 2D images
Tall == Labels(<<5, 3>>, <<1, 1>>, 0, 3)

Wide == Labels(<<3, 4>>, <<0, 1>>, 1, 3)

Square == Labels(<<3, 3>>, <<1, 0>>, 0, 2)

\* the constructor calls of the sampling model
Inputs ==
    \* 3D volumes sampled in 3D
    Pairs(Down(Default), {Layers3, Layers2, Pore, Small})
    \cup Pairs(Down([Default EXCEPT !.sf = 1]), {Layers3})
    \cup Pairs({[Default EXCEPT !.crop = TRUE]}, {Large, Layers3})
    \cup Pairs(Down([Default EXCEPT !.low_res = TRUE]), {Small})
    \* 3D volumes sampled in 2D
    \cup Pairs(Down([Default EXCEPT !.dims = 2, !.low_res = TRUE]), {Layers3, Pore})
    \cup Pairs({[Default EXCEPT !.dims = 2]}, {Layers3})
    \* stacks, expanded or not
    \cup Pairs({[Default EXCEPT !.stack = TRUE, !.dims = 2, !.low_res = TRUE,
                                !.rot_and_mir = r] : r \in BOOLEAN}, {Stack1})
    \cup Pairs(Down([Default EXCEPT !.stack = TRUE, !.dims = 2, !.low_res = TRUE]),
               {Stack2})
    \cup Pairs({[Default EXCEPT !.stack = TRUE]}, {Stack2})
    \* single images
    \cup Pairs(Down([Default EXCEPT !.dims = 2, !.low_res = TRUE]), {Tall, Wide})
    \cup Pairs({[Default EXCEPT !.dims = 2, !.low_res = TRUE, !.stack = s, !.crop = c] :
                  s \in BOOLEAN, c \in BOOLEAN}, {Square, Wide})

\* the constructor calls of the model of __init__ alone: every combination
\* of the flags __init__ reads, on stacks, volumes and images of many shapes
Configs ==
    [down_sample : {FALSE}, to_low_idx : {<<1>>}, squash : {FALSE}, sf : {1, 2},
     dims : {2, 3}, stack : BOOLEAN, crop : BOOLEAN, low_res : BOOLEAN,
     rot_and_mir : BOOLEAN]

InitRaws ==
    {Labels(<<1, 2, 2>>, <<0, 2, 1>>, 0, 4),
     Labels(<<2, 2, 2>>, <<4, 2, 1>>, 0, 8),
     Labels(<<1, 3, 3>>, <<0, 3, 1>>, 0, 9),
     Labels(<<2, 3, 3>>, <<9, 3, 1>>, 0, 18),
     Labels(<<2, 3, 3>>, <<1, 1, 2>>, 0, 3),
     Labels(<<3, 1, 1>>, <<1, 0, 0>>, 0, 2),
     Labels(<<1, 2, 3>>, <<0, 3, 1>>, 0, 6),
     Labels(<<2, 3, 2>>, <<1, 1, 0>>, 0, 2),
     Labels(<<3, 3>>, <<3, 1>>, 0, 9),
     Labels(<<2, 3>>, <<1, 1>>, 0, 2),
     Small, Large, Layers3}

--------------------------------------------------------------------------
Init ==
    /\ pc = "new"
    /\ raw = None
    /\ aug = None
    /\ bm = None
    /\ op = NoCall
    /\ rnd = None
    /\ ret = None

New == Construct(Inputs)

Next ==
    \/ New
    \/ GenerateARandomImage3d
    \/ GenerateARandomImage2d
    \/ RandomBatch3d
    \/ RandomBatch2d
    \/ RandomBatchForReal
    \/ RandomBatchForFake
    \/ Discard

Spec == Init /\ [][Next]_vars

\* __init__ alone
NewAny == Construct(Pairs(Configs, InitRaws))

SpecInit == Init /\ [][NewAny]_vars

--------------------------------------------------------------------------
(* The claims.                                                             *)

Constructed == pc = "constructed"

\* the spatial extents of the stored volume
Extent(d) == bm.im.shape[d + 1]

Is3d == Rank(bm.im) = 4

\* C1: in 3D mode, for every axis and every volume whose three extents all
\* exceed high_l, generate_a_random_image3d returns a patch of shape
\* (C, high_l, high_l, high_l) whose spatial axis i is the source's spatial
\* axis table[axis][i], the table being 0 -> (1,2,3), 1 -> (2,1,3),
\* 2 -> (3,1,2): the value at the permuted coordinates of x is the source
\* value at start + x.
C1_PatchIsPermutedCube ==
    (/\ Constructed
     /\ op.name = "generate_a_random_image3d"
     /\ Is3d
     /\ \A d \in 1 .. 3 : Extent(d) > bm.high_l)
    => LET h == bm.high_l
           C == Len(bm.phases)
           p == <<<<1, 2, 3>>, <<2, 1, 3>>, <<3, 1, 2>>>>[op.dim_chosen + 1]
       IN  /\ ret.kind = "array"
           /\ ret.shape = <<C, h, h, h>>
           /\ LET s == rnd.draws[1].s_ind
              IN  \A x \in Idx(<<C, h, h, h>>) :
                    ret.val[<<x[1], x[p[1] + 1], x[p[2] + 1], x[p[3] + 1]>>]
                      = bm.im.val[<<x[1], s[1] + x[2], s[2] + x[3], s[3] + x[4]>>]

\* a patch along axis 1 in which the permutation shows: it differs from the
\* cube it was cut from
C1_Witness ==
    /\ Constructed
    /\ op.name = "generate_a_random_image3d"
    /\ op.dim_chosen = 1
    /\ Is3d
    /\ \A d \in 1 .. 3 : Extent(d) > bm.high_l
    /\ ret.kind = "array"
    /\ \E o \in DOMAIN ret.val :
         LET s == rnd.draws[1].s_ind
         IN  ret.val[o] # bm.im.val[<<o[1], s[1] + o[2], s[2] + o[3], s[3] + o[4]>>]

\* C2: in 3D mode a start s can be drawn on an axis if and only if
\* 0 <= s and s + high_l <= the extent of that axis.
C2_StartsAreTheValidPlacements ==
    (Constructed /\ Is3d /\ \A d \in 1 .. 3 : Extent(d) >= bm.high_l)
    => \A d \in 1 .. 3 : \A s \in (0 - 1) .. Extent(d) :
         (\E dr \in Draws3d(bm) : dr.s_ind[d] = s)
           <=> (0 <= s /\ s + bm.high_l <= Extent(d))

\* C3: when high_l equals the extent of every axis, sampling succeeds and the
\* start is 0 on every axis; when high_l is one greater than an extent,
\* sampling fails with an error.
C3_Boundary ==
    (Constructed /\ op.name = "generate_a_random_image3d" /\ Is3d)
    => /\ (\A d \in 1 .. 3 : Extent(d) = bm.high_l)
            => (ret.kind = "array" /\ rnd.draws[1].s_ind = <<0, 0, 0>>)
       /\ (\E d \in 1 .. 3 : Extent(d) + 1 = bm.high_l) => ret.kind = "error"

\* a batch call that went through down_sample_im and returned an array
DownSampled ==
    /\ Constructed
    /\ op.name \in BatchCalls
    /\ rnd.image # None
    /\ ret.kind = "array"

\* C4: every value of every channel of the batch down_sample_im returns,
\* the pore channel included, is 0 or 1.
C4_OutputIsBinary ==
    DownSampled => \A i \in DOMAIN ret.val : ret.val[i] \in {0, 1}

\* the channels the batch a batch call returns should have
ChannelsExpected ==
    IF rnd.image = None THEN Len(bm.phases)
    ELSE 1 + (IF bm.squash THEN 1 ELSE Len(bm.to_low_idx))

\* C6: every batch a batch call returns has shape (batch_size, channels,
\* spatial...), for every batch_size >= 1, down-sampled or not, and a
\* low-resolution batch has the leading dimensions of the high-resolution
\* batch it was made from.
C6_BatchMajor ==
    (Constructed /\ op.name \in BatchCalls /\ ret.kind = "array")
    => /\ Len(ret.shape) >= 3
       /\ ret.shape[1] = op.batch_size
       /\ ret.shape[2] = ChannelsExpected
       /\ rnd.image # None =>
            /\ Len(ret.shape) = Len(rnd.image.shape)
            /\ ret.shape[1] = rnd.image.shape[1]

\* the axes a window is cut along
WindowAxes == IF bm.stack THEN {d \in 1 .. (Rank(bm.im) - 1) : d >= 2}
              ELSE 1 .. (Rank(bm.im) - 1)

\* C7: no BatchMaker whose high_l exceeds an extent it must cut a window
\* from is ever constructed.
C7_ConstructorRejectsLargePatch ==
    Constructed => \A d \in WindowAxes : bm.high_l <= Extent(d)

\* C8: on a single 2D image with H > high_l and W > high_l,
\* generate_a_random_image2d returns a window of exactly high_l x high_l
\* pixels that lies inside the image.
C8_SquareWindowInside ==
    (/\ Constructed
     /\ op.name = "generate_a_random_image2d"
     /\ ~bm.stack
     /\ bm.dim_im = 2
     /\ Extent(1) > bm.high_l
     /\ Extent(2) > bm.high_l)
    => /\ ret.kind = "array"
       /\ ret.shape = <<Len(bm.phases), bm.high_l, bm.high_l>>
       /\ \E r0 \in 0 .. (Extent(1) - bm.high_l), c0 \in 0 .. (Extent(2) - bm.high_l) :
            /\ {ret.src[o][2] : o \in DOMAIN ret.src} = r0 .. (r0 + bm.high_l - 1)
            /\ {ret.src[o][3] : o \in DOMAIN ret.src} = c0 .. (c0 + bm.high_l - 1)

\* slice j of a stack (N, H, W), as an H x W array
SliceOf(stack, j) ==
    Arr(Tail(stack.shape), LAMBDA i : stack.val[<<j>> \o i])

\* an H x W array turned by a quarter: the last column becomes the first row
QuarterTurn(m) ==
    Arr(<<m.shape[2], m.shape[1]>>, LAMBDA i : m.val[<<i[2], m.shape[2] - 1 - i[1]>>])

RECURSIVE Turns(_, _)
Turns(m, k) == IF k = 0 THEN m ELSE QuarterTurn(Turns(m, k - 1))

\* an H x W array mirrored horizontally
Mirror(m) == Arr(m.shape, LAMBDA i : m.val[<<i[1], m.shape[2] - 1 - i[2]>>])

\* __init__ ran rotate_and_mirror on a stack of square slices
ExpandedSquareStack ==
    /\ Constructed
    /\ op.name = "__init__"
    /\ op.cfg.rot_and_mir
    /\ Rank(raw) = 3
    /\ raw.shape[2] = raw.shape[3]

\* C5: rotate_and_mirror on a stack of N square slices leaves a stack of 8N
\* slices of the same slice shape in which, for k in 0..3 and j in 0..N-1,
\* slice 2kN + j is slice j turned k quarter turns and slice (2k+1)N + j is
\* the mirrored slice j turned k quarter turns; every output slice is
\* written exactly once.
C5_RotateAndMirrorLayout ==
    ExpandedSquareStack
    => LET N == raw.shape[1]
       IN  /\ aug.res.shape = <<8 * N, raw.shape[2], raw.shape[3]>>
           /\ \A k \in 0 .. 3, j \in 0 .. (N - 1) :
                /\ SliceOf(aug.res, 2 * k * N + j) = Turns(SliceOf(raw, j), k)
                /\ SliceOf(aug.res, (2 * k + 1) * N + j)
                     = Turns(Mirror(SliceOf(raw, j)), k)
           /\ DOMAIN aug.written = 0 .. (8 * N - 1)
           /\ \A i \in 0 .. (8 * N - 1) : aug.written[i] = 1

\* a stack of two 3 x 3 slices whose eight images of slice 0 all differ
C5_Witness ==
    /\ ExpandedSquareStack
    /\ raw.shape = <<2, 3, 3>>
    /\ \A a, b \in 0 .. 7 :
         a # b => SliceOf(aug.res, 2 * a) # SliceOf(aug.res, 2 * b)

\* the batch returned, with the batch axis that squeeze(0) removed put back
Unsqueezed ==
    IF rnd.image.shape[1] = 1
    THEN [shape |-> <<1>> \o ret.shape,
          val |-> [i \in Idx(<<1>> \o ret.shape) |-> ret.val[Tail(i)]]]
    ELSE [shape |-> ret.shape, val |-> ret.val]

\* the locations of the low-resolution batch: its indices in channel 0
Locations == {i \in DOMAIN Unsqueezed.val : i[2] = 0}

ChannelsAt(i) == 0 .. (Unsqueezed.shape[2] - 1)

ValueAt(i, c) == Unsqueezed.val[[i EXCEPT ![2] = c]]

\* the pooled material values of the batch that was down-sampled
Pooled ==
    LearnTools_down_sample(rnd.image, bm.to_low_idx, bm.scale_factor, bm.dims,
                           bm.squash)

Abs(x) == IF x < 0 THEN 0 - x ELSE x

\* no pooled material value at location i lies within 0.005 of 0.5
NoTieAt(i) ==
    \A m \in 0 .. (Pooled.shape[2] - 1) :
      Abs(1000 * Pooled.val[[i EXCEPT ![2] = m]] - 500 * Pooled.den) > 5 * Pooled.den

\* C9: in the batch down_sample_im returns the pore channel comes first and
\* is the complement of the material channels, so the channels sum to 1 at
\* every location; where no pooled material value is at the 0.5 tie
\* boundary, exactly one channel is 1 and all others are 0.
C9_ChannelsSumToOne ==
    DownSampled
    => \A i \in Locations :
         /\ SumFn([c \in ChannelsAt(i) |-> ValueAt(i, c)], ChannelsAt(i)) = 1
         /\ NoTieAt(i) =>
              /\ \A c \in ChannelsAt(i) : ValueAt(i, c) \in {0, 1}
              /\ Cardinality({c \in ChannelsAt(i) : ValueAt(i, c) = 1}) = 1

\* two material channels, not squashed, and a location off the tie boundary
\* whose second material channel is set
C9_Witness ==
    /\ DownSampled
    /\ ~bm.squash
    /\ Len(bm.to_low_idx) = 2
    /\ \E i \in Locations : NoTieAt(i) /\ ValueAt(i, 2) = 1

\* C10: after construction no call changes the BatchMaker (self.im, phases,
\* high_l and the configuration), whatever it draws and whether or not it
\* ends in an error, and a batch returned shares no memory with self.im.
C10_VolumeImmutable ==
    [][/\ Constructed => (pc' = pc /\ bm' = bm)
       /\ (op'.name \in BatchCalls /\ ret'.kind = "array") => ret'.base = "fresh"]_vars

\* a batch of two patches was returned and the volume is as __init__ left it
C10_Witness ==
    /\ Constructed
    /\ op.name \in BatchCalls
    /\ op.batch_size = 2
    /\ ret.kind = "array"
    /\ ret.base = "fresh"
    /\ bm.im = one_hot_encoding(raw, bm.phases)

==========================================================================
